---- MODULE Spec2Model ----
(***************************************************************************)
(* Model of the folder-based staged pipeline (BeGreifen/pipeline):         *)
(*   utils/file_ops.py            memoised file operations                 *)
(*   utils/pipeline_handling.py   process_file, reflect_to_pipeline_storage*)
(*   utils/pipeline_file_watcher.py  one polling thread per stage          *)
(*   utils/pipeline_dashboard_websocket.py  dashboard map and sweeper      *)
(***************************************************************************)
EXTENDS Integers, Sequences, FiniteSets, TLC

\* ------------------------------------------------------------------ bounds
\* Seconds the wall clock may advance (timestamps have one-second resolution).
MaxClock == 2
\* Number of files external actors deposit into stage roots.
MaxDeposits == 2
\* Number of direct reflect_to_pipeline_storage calls in the mirror scenario.
MaxCalls == 3

\* ------------------------------------------------------- layout of the disk
\* Stage directories under the pipeline root.  A stage is named by its rank
\* in the lexicographic order of the directory names (10_a < 20_b).
Stages == {1, 2}
\* File names (stems; every file carries the same extension).
Stems == {"doc"}

\* Directories are sequences of path components.
PipelineDir == <<"pipe">>
StorageDir == <<"store">>
StageDir(s) == <<"pipe", s>>
WorkingDir(s) == <<"pipe", s, "working">>
ProcessedDir(s) == <<"pipe", s, "processed">>
ErrorDir(s) == <<"pipe", s, "error">>
\* error_dir / f"{file_name}.err", which move_file takes as a destination FOLDER.
ErrFolder(s, stem) == <<"pipe", s, "error", stem>>
StorageSubdir(s) == <<"store", s>>

\* File names: the plain name, "<name>.err", and the audit name
\* "<stem>_<status>_<timestamp><suffix>".
PlainName(stem) == [stem |-> stem, kind |-> "plain", tag |-> "", ts |-> 0]
ErrName(stem) == [stem |-> stem, kind |-> "err", tag |-> "", ts |-> 0]
MirrorName(stem, status, ts) == [stem |-> stem, kind |-> "mirror", tag |-> status, ts |-> ts]

PathOf(dir, name) == [dir |-> dir, name |-> name]
RootFile(s, stem) == PathOf(StageDir(s), PlainName(stem))
WorkingFile(s, stem) == PathOf(WorkingDir(s), PlainName(stem))
ProcessedFile(s, stem) == PathOf(ProcessedDir(s), PlainName(stem))

\* Content written by a depositor, and the marker a processor appends.
OriginalContent == 1
AppendMark == 10

\* ------------------------------------------------------------- file system
\* A disk d is [fs, dirs, cache, writing]: fs maps each existing regular file
\* to [c |-> content, m |-> mtime], dirs is the set of existing directories,
\* cache holds the lru_cache of every decorated file operation and writing is
\* the set of files an external writer is still appending to.
Put(f, p, v) == [q \in (DOMAIN f) \cup {p} |-> IF q = p THEN v ELSE f[q]]
Del(f, p) == [q \in (DOMAIN f) \ {p} |-> f[q]]
IsFile(d, p) == p \in DOMAIN d.fs
Ancestors(dir) == {SubSeq(dir, 1, n) : n \in 1..Len(dir)}

\* st_mtime of a file written now.  Only the watchers read mtimes, and only
\* of the files in a stage root, so the mtime is kept for those alone.
MTime(dir, now) == IF Len(dir) = 2 /\ dir[1] = "pipe" THEN now ELSE 0

EmptyCache ==
    [made |-> {}, moved |-> {}, copied |-> {}, renamed |-> {}, ready |-> {},
     checked |-> {}, ts |-> -1]

\* generate_timestamp: memoised without arguments, so the first value is
\* returned for the rest of the process.
GenerateTimestamp(c, now) == IF c.ts >= 0 THEN c.ts ELSE now
TimestampCache(c, now) == IF c.ts >= 0 THEN c ELSE [c EXCEPT !.ts = now]

\* create_directory: mkdir(parents=True, exist_ok=True), memoised on the path.
CreateDirectory(d, dir) ==
    IF dir \in d.cache.made THEN d
    ELSE [d EXCEPT !.dirs = @ \cup Ancestors(dir), !.cache.made = @ \cup {dir}]

\* check_file_is_ready(file_path) called directly, memoised on the path (the
\* call of wait_until_file_ready passes keywords and has cache entries of its
\* own).  A missing file gives False at once; a file whose size keeps
\* changing gives False at the timeout; a file an external actor removes
\* while the probe sleeps makes os.path.getsize raise FileNotFoundError, which
\* is not caught and not cached.  Returns [d, res].
CheckFileIsReady(d, p, vanishes) ==
    LET hit == {r \in d.cache.checked : r[1] = p}
        remember(v) == [d EXCEPT !.cache.checked = @ \cup {<<p, v>>}]
    IN  IF hit # {} THEN [d |-> d, res |-> (CHOOSE r \in hit : TRUE)[2]]
        ELSE IF ~IsFile(d, p) THEN [d |-> remember("false"), res |-> "false"]
        ELSE IF vanishes THEN [d |-> [d EXCEPT !.fs = Del(@, p)], res |-> "raised"]
        ELSE IF p \in d.writing THEN [d |-> remember("false"), res |-> "false"]
        ELSE [d |-> remember("true"), res |-> "true"]

\* wait_until_file_ready, memoised on the path, around check_file_is_ready,
\* memoised as well: the first probe decides.  It is False for a missing file
\* and for a file whose size changes between the checks, and a False is
\* handed back from the cache by every retry until max_wait is over.
\* Returns [d, ready].
WaitUntilFileReady(d, p) ==
    LET hit == {r \in d.cache.ready : r[1] = p}
        v == IsFile(d, p) /\ p \notin d.writing
    IN  IF hit # {} THEN [d |-> d, ready |-> (CHOOSE r \in hit : TRUE)[2]]
        ELSE [d |-> [d EXCEPT !.cache.ready = @ \cup {<<p, v>>}], ready |-> v]

\* move_file: memoised on (file_path, destination_folder).  The result of
\* wait_until_file_ready is discarded.  Returns [d, ok, ret]; ok = FALSE is
\* the re-raised exception of shutil.move.
MoveFileUncached(d, p, dir) ==
    LET d1 == WaitUntilFileReady(CreateDirectory(d, dir), p).d
        dst == PathOf(dir, p.name)
    IN  IF ~IsFile(d1, p) \/ dir \notin d1.dirs
        THEN [d |-> d1, ok |-> FALSE, ret |-> dst]
        ELSE [d |-> [d1 EXCEPT !.fs = Put(Del(@, p), dst, d1.fs[p]),
                               !.cache.moved = @ \cup {<<p, dir>>}],
              ok |-> TRUE, ret |-> dst]

MoveFile(d, p, dir) ==
    IF <<p, dir>> \in d.cache.moved
    THEN [d |-> d, ok |-> TRUE, ret |-> PathOf(dir, p.name)]
    ELSE MoveFileUncached(d, p, dir)

\* copy_file: memoised on (file_path, destination_folder); the result of
\* wait_until_file_ready is discarded; shutil.copy gives the copy a fresh mtime.
CopyFile(d, p, dir, now) ==
    LET d1 == WaitUntilFileReady(CreateDirectory(d, dir), p).d
        dst == PathOf(dir, p.name)
    IN  IF <<p, dir>> \in d.cache.copied
        THEN [d |-> d, ok |-> TRUE, ret |-> dst]
        ELSE IF ~IsFile(d1, p) \/ dir \notin d1.dirs
        THEN [d |-> d1, ok |-> FALSE, ret |-> dst]
        ELSE [d |-> [d1 EXCEPT !.fs = Put(@, dst, [c |-> d1.fs[p].c, m |-> MTime(dir, now)]),
                               !.cache.copied = @ \cup {<<p, dir>>}],
              ok |-> TRUE, ret |-> dst]

\* rename_file: memoised on (file_path, new_name).  Path.rename onto an
\* existing file replaces it on POSIX and raises FileExistsError on Windows.
RenameFile(d, p, newname, posix) ==
    LET dst == PathOf(p.dir, newname)
    IN  IF <<p, newname>> \in d.cache.renamed
        THEN [d |-> d, ok |-> TRUE, ret |-> dst]
        ELSE IF ~IsFile(d, p) \/ (IsFile(d, dst) /\ dst # p /\ ~posix)
        THEN [d |-> d, ok |-> FALSE, ret |-> dst]
        ELSE [d |-> [d EXCEPT !.fs = Put(Del(@, p), dst, d.fs[p]),
                              !.cache.renamed = @ \cup {<<p, newname>>}],
              ok |-> TRUE, ret |-> dst]

\* ------------------------------------------------------------ audit store
\* Path(file_path).parent.name compared with Path(current_dir).name: empty for
\* a file directly in the stage directory, else the name of its folder.
StatusOf(s, p) == IF p.dir = StageDir(s) THEN "" ELSE p.dir[Len(p.dir)]

\* reflect_to_pipeline_storage(current_dir, file_path, result): returns at
\* once for result = False or a missing file; otherwise MOVES the file into
\* <storage>/<stage>/ and renames it to <stem>_<status>_<timestamp><suffix>.
\* Returns [d, ok]; ok = FALSE is an exception of move_file or rename_file.
ReflectToPipelineStorage(d, s, p, result, now, posix) ==
    IF ~result THEN [d |-> d, ok |-> TRUE]
    ELSE IF ~IsFile(d, p) THEN [d |-> d, ok |-> TRUE]
    ELSE LET d1 == CreateDirectory(d, StorageSubdir(s))
             ts == GenerateTimestamp(d1.cache, now)
             d2 == [d1 EXCEPT !.cache = TimestampCache(@, now)]
             new_file_name == MirrorName(p.name.stem, StatusOf(s, p), ts)
             mv == MoveFile(d2, p, StorageSubdir(s))
         IN  IF ~mv.ok THEN [d |-> mv.d, ok |-> FALSE]
             ELSE LET rn == RenameFile(mv.d, mv.ret, new_file_name, posix)
                  IN  [d |-> rn.d, ok |-> rn.ok]

\* -------------------------------------------------------------- next stage
\* sorted(os.listdir(PIPELINE_DIR)): the bare names of the stage directories.
NameString(s) == <<s>>
SiblingDir == [i \in 1..Cardinality(Stages) |-> NameString(i)]
\* The string process_file passes: the full path of the file.
PathString(p) == p.dir \o <<p.name.stem>>
\* BASE_DIR / sibling_dir[current_index + 1]
UnderBaseDir(name) == <<"base">> \o name

\* get_next_dir: sibling_dir.index(<the argument itself>) raises ValueError
\* when the argument is not one of the bare directory names.
\* Returns [ok, none, ret].
GetNextDir(arg) ==
    LET hits == {i \in 1..Len(SiblingDir) : SiblingDir[i] = arg}
    IN  IF hits = {} THEN [ok |-> FALSE, none |-> TRUE, ret |-> <<>>]
        ELSE LET current_index == CHOOSE i \in hits : \A j \in hits : i <= j
             IN  IF current_index + 1 <= Len(SiblingDir)
                 THEN [ok |-> TRUE, none |-> FALSE,
                       ret |-> UnderBaseDir(SiblingDir[current_index + 1])]
                 ELSE [ok |-> TRUE, none |-> TRUE, ret |-> <<>>]

\* ------------------------------------------------------------- processors
\* What a stage's processor may do with the working file:
\*   ok_move   appends to the working file, moves it to processed/ with
\*             file_ops.move_file and returns True (example_step_one)
\*   ok_write  writes processed/<name>, leaves the working file, returns True
\*   ok_noout  returns True and writes nothing
\*   false     returns False
\*   raise     raises
\*   missing   the stage has no processor module file
\*   nosymbol  the module has no attribute process_this
\*   notcallable  the attribute is not callable
Behaviours == {"ok_move", "ok_write", "ok_noout", "false", "raise", "missing"}
ResolutionFailures == {"missing", "nosymbol", "notcallable"}
AllBehaviours == Behaviours \cup ResolutionFailures

\* Returns [d, result, bound, resolved]: bound says whether line 268 assigned
\* processed_file_path, resolved whether get_processor_function returned.
RunProcessor(d, s, stem, beh, now) ==
    LET w == WorkingFile(s, stem)
        failed == [d |-> d, result |-> FALSE, bound |-> FALSE, resolved |-> TRUE]
    IN  CASE beh = "missing" ->
               [d |-> d, result |-> FALSE, bound |-> FALSE, resolved |-> FALSE]
          [] beh \in {"raise", "nosymbol", "notcallable"} -> failed
          [] beh = "false" ->
               [d |-> d, result |-> FALSE, bound |-> TRUE, resolved |-> TRUE]
          [] beh = "ok_noout" ->
               [d |-> d, result |-> TRUE, bound |-> TRUE, resolved |-> TRUE]
          [] beh = "ok_write" ->
               IF ~IsFile(d, w) THEN failed
               ELSE [d |-> [d EXCEPT !.fs = Put(@, ProcessedFile(s, stem),
                                     [c |-> d.fs[w].c + AppendMark, m |-> MTime(ProcessedDir(s), now)])],
                     result |-> TRUE, bound |-> TRUE, resolved |-> TRUE]
          [] OTHER ->
               LET old == IF IsFile(d, w) THEN d.fs[w].c ELSE 0
                   d1 == [d EXCEPT !.fs = Put(@, w, [c |-> old + AppendMark, m |-> MTime(WorkingDir(s), now)])]
                   mv == MoveFile(d1, w, ProcessedDir(s))
               IN  IF ~mv.ok
                   THEN [d |-> mv.d, result |-> FALSE, bound |-> FALSE, resolved |-> TRUE]
                   ELSE [d |-> mv.d, result |-> TRUE, bound |-> TRUE, resolved |-> TRUE]

\* ------------------------------------------------------------ process_file
\* One invocation of process_file is a record
\*   [stage, stem, pc, result, bound, beh]
\* pc: guard, copy, dispatch, mirror_in, mirror_out, branch, handler, and the
\* two ends returned and raised.
NewCall(s, stem) ==
    [stage |-> s, stem |-> stem, pc |-> "guard", result |-> FALSE,
     bound |-> FALSE, beh |-> "none"]
Finished(c) == c.pc \in {"returned", "raised"}

\* A process_file that starts without looking whether the file exists.
NoExistenceCheck(d, c) ==
    [d |-> [d EXCEPT !.dirs = @ \cup {WorkingDir(c.stage), ProcessedDir(c.stage),
                                       ErrorDir(c.stage)}],
     c |-> [c EXCEPT !.pc = "copy"]]

\* lines 225-242: the existence check and the three mkdir(exist_ok=True).
StepGuard(d, c) ==
    IF ~IsFile(d, RootFile(c.stage, c.stem))
    THEN [d |-> d, c |-> [c EXCEPT !.pc = "raised"]]
    ELSE [d |-> [d EXCEPT !.dirs = @ \cup {WorkingDir(c.stage), ProcessedDir(c.stage),
                                            ErrorDir(c.stage)}],
          c |-> [c EXCEPT !.pc = "copy"]]

\* line 247
StepCopy(d, c, now) ==
    LET cp == CopyFile(d, RootFile(c.stage, c.stem), WorkingDir(c.stage), now)
    IN  [d |-> cp.d, c |-> [c EXCEPT !.pc = IF cp.ok THEN "dispatch" ELSE "handler"]]

\* lines 254-274
StepDispatch(d, c, now, beh) ==
    LET r == RunProcessor(d, c.stage, c.stem, beh, now)
    IN  [d |-> r.d,
         c |-> [c EXCEPT !.pc = IF r.resolved THEN "mirror_in" ELSE "handler",
                         !.result = r.result, !.bound = r.bound, !.beh = beh]]

\* line 277
StepMirrorIn(d, c, now, posix) ==
    LET r == ReflectToPipelineStorage(d, c.stage, RootFile(c.stage, c.stem),
                                      c.result, now, posix)
    IN  [d |-> r.d, c |-> [c EXCEPT !.pc = IF r.ok THEN "mirror_out" ELSE "handler"]]

\* line 278: reading the unassigned processed_file_path raises.
StepMirrorOut(d, c, now, posix) ==
    IF ~c.bound THEN [d |-> d, c |-> [c EXCEPT !.pc = "handler"]]
    ELSE LET r == ReflectToPipelineStorage(d, c.stage, ProcessedFile(c.stage, c.stem),
                                           c.result, now, posix)
         IN  [d |-> r.d, c |-> [c EXCEPT !.pc = IF r.ok THEN "branch" ELSE "handler"]]

\* lines 280-292
StepBranch(d, c, now, posix) ==
    IF c.result
    THEN LET next_dir == GetNextDir(PathString(RootFile(c.stage, c.stem)))
         IN  IF ~next_dir.ok THEN [d |-> d, c |-> [c EXCEPT !.pc = "handler"]]
             ELSE LET mv == MoveFile(d, ProcessedFile(c.stage, c.stem),
                                     IF next_dir.none THEN ProcessedDir(c.stage)
                                     ELSE next_dir.ret)
                  IN  [d |-> mv.d,
                       c |-> [c EXCEPT !.pc = IF mv.ok THEN "returned" ELSE "handler"]]
    ELSE LET mv == MoveFile(d, WorkingFile(c.stage, c.stem), ErrFolder(c.stage, c.stem))
         IN  IF ~mv.ok THEN [d |-> mv.d, c |-> [c EXCEPT !.pc = "handler"]]
             ELSE LET r == ReflectToPipelineStorage(mv.d, c.stage,
                               ProcessedFile(c.stage, c.stem), c.result, now, posix)
                  IN  [d |-> r.d,
                       c |-> [c EXCEPT !.pc = IF r.ok THEN "returned" ELSE "handler"]]

\* lines 294-297: the handler moves the original; its own failure leaves
\* process_file by raising.
StepHandler(d, c) ==
    LET mv == MoveFile(d, RootFile(c.stage, c.stem), ErrFolder(c.stage, c.stem))
    IN  [d |-> mv.d, c |-> [c EXCEPT !.pc = IF mv.ok THEN "returned" ELSE "raised"]]

StepCall(d, c, now, posix, beh) ==
    CASE c.pc = "guard" -> StepGuard(d, c)
      [] c.pc = "copy" -> StepCopy(d, c, now)
      [] c.pc = "dispatch" -> StepDispatch(d, c, now, beh)
      [] c.pc = "mirror_in" -> StepMirrorIn(d, c, now, posix)
      [] c.pc = "mirror_out" -> StepMirrorOut(d, c, now, posix)
      [] c.pc = "branch" -> StepBranch(d, c, now, posix)
      [] c.pc = "handler" -> StepHandler(d, c)
      [] OTHER -> [d |-> d, c |-> c]

\* A whole run of process_file, start to end, with the processor behaving as beh.
RECURSIVE RunToEnd(_, _, _, _, _)
RunToEnd(d, c, now, posix, beh) ==
    IF Finished(c) THEN [d |-> d, c |-> c]
    ELSE LET n == StepCall(d, c, now, posix, beh)
         IN  RunToEnd(n.d, n.c, now, posix, beh)

\* ------------------------------------------------------------------ state
VARIABLES
    disk,        \* [fs, dirs, cache]: the files, the directories, the lru caches
    clock,       \* wall clock, in seconds
    posix,       \* the platform: TRUE for POSIX rename semantics
    deposits,    \* files deposited so far by external actors
    procs,       \* per stage, what its processor module may do
    calls,       \* the invocations of process_file in flight
    known,       \* per watcher thread: known_files
    first_run,   \* per watcher thread: first_run
    todo,        \* per watcher thread: the rest of new_or_modified_files
    current,     \* per watcher thread: current_files of this iteration
    crashed,     \* crash scenario: the process was killed and restarted
    ncalls,      \* mirror scenario: direct reflect_to_pipeline_storage calls made
    mirrored,    \* mirror scenario: calls with result=True on an existing file
    lastCall,    \* mirror scenario: the last direct call and what it found
    pipelines,   \* dashboard: pipeline_id -> [status, last_update, error_message]
    registered,  \* dashboard: the ids in the order the dict received them
    global_stats,\* dashboard: the aggregate counts
    clients,     \* dashboard: the connected clients
    frame,       \* dashboard: the last dashboard_update frame broadcast
    dnow,        \* dashboard: datetime.now(), in seconds
    dticks,      \* dashboard: how often the clock was advanced
    nupdates,    \* dashboard: inbound messages handled so far
    sweep,       \* dashboard: the sweeper task [pc, current_time, left, wake]
    broken,      \* dashboard: clients whose connection is closed
    bcast,       \* dashboard: the last broadcast [by, targets, failed, got]
    lastMsg,     \* dashboard: the last inbound message handled and when
    safely,      \* per watcher thread: how its last _process_file_safely ended
    lastOp,      \* file operations scenario: the last direct call [op, src, dir, ok, res]
    previous,    \* per watcher thread: the listing its preceding iteration read
    outcome,     \* per watcher thread: how its last process_file run ended
    handed,      \* per watcher thread: what it has handed on [file, mtime, peers_busy]
    purges       \* audit store: the purges of this process [n, ok, stuck, gone]

auxVars == <<safely, lastOp, previous, outcome, handed, purges>>
pipeVars == <<disk, clock, posix, deposits, procs, calls, known, first_run, todo, current,
              auxVars>>
dashVars == <<pipelines, registered, global_stats, clients, frame, dnow, dticks,
              nupdates, sweep, broken, bcast, lastMsg>>
scenarioVars == <<crashed, ncalls, mirrored, lastCall, dashVars, auxVars>>

NoFiles == [p \in {} |-> 0]
NoOp == [op |-> "none", src |-> <<>>, dir |-> <<>>, ok |-> TRUE, res |-> ""]
NoPurge == [n |-> 0, ok |-> TRUE, stuck |-> {}, gone |-> {}]
NoCall == [stage |-> 0, stem |-> "", dir |-> <<>>, result |-> FALSE,
           existed |-> FALSE, content |-> 0, ok |-> TRUE]

\* The pipeline root with its stage directories and the storage root exist.
FreshDisk ==
    [fs |-> NoFiles,
     dirs |-> {PipelineDir, StorageDir} \cup {StageDir(s) : s \in Stages},
     cache |-> EmptyCache,
     writing |-> {}]

\* PipelineDashboard.__init__ (lines 38-48) and the sweeper about to start.
NoPipelines == [p \in {} |-> 0]
ZeroStats == [total_pipelines |-> 0, active_pipelines |-> 0, failed_pipelines |-> 0,
              completed_pipelines |-> 0, idle_pipelines |-> 0]
NoFrame == [sent |-> FALSE, global_stats |-> ZeroStats, pipelines |-> NoPipelines]
NoBroadcast == [by |-> "none", targets |-> {}, failed |-> {}, got |-> {}]
\* An inbound message: its type, the payload's pipeline_id, status and
\* error_message, the time it was handled and the last_update it found.
NoMsg == [type |-> "none", id |-> "", status |-> "", error_message |-> "none",
          at |-> 0, before |-> -1]

InitDashboard ==
    /\ pipelines = NoPipelines
    /\ registered = <<>>
    /\ global_stats = ZeroStats
    /\ clients = {}
    /\ frame = NoFrame
    /\ dnow = 0
    /\ dticks = 0
    /\ nupdates = 0
    /\ sweep = [pc |-> "sleep", current_time |-> 0, left |-> <<>>, wake |-> 0]
    /\ broken = {}
    /\ bcast = NoBroadcast
    /\ lastMsg = NoMsg

InitScenario ==
    /\ crashed = FALSE
    /\ ncalls = 0
    /\ mirrored = 0
    /\ lastCall = NoCall
    /\ safely = [s \in Stages |-> "none"]
    /\ lastOp = NoOp
    /\ previous = [s \in Stages |-> NoFiles]
    /\ outcome = [s \in Stages |-> "none"]
    /\ handed = [s \in Stages |-> {}]
    /\ purges = NoPurge
    /\ InitDashboard

InitPipeline ==
    /\ disk = FreshDisk
    /\ clock = 0
    /\ posix = TRUE
    /\ deposits = 0
    /\ procs = [s \in Stages |-> Behaviours]
    /\ calls = {}
    /\ known = [s \in Stages |-> NoFiles]
    /\ first_run = [s \in Stages |-> TRUE]
    /\ todo = [s \in Stages |-> <<>>]
    /\ current = [s \in Stages |-> NoFiles]

\* --------------------------------------------------------------- environment
\* An external actor writes a file into a stage root.
Deposit(s, stem) ==
    /\ deposits < MaxDeposits
    /\ deposits' = deposits + 1
    /\ disk' = [disk EXCEPT !.fs = Put(@, RootFile(s, stem),
                                       [c |-> OriginalContent, m |-> clock])]
    /\ UNCHANGED <<clock, posix, procs, calls, known, first_run, todo, current>>
    /\ UNCHANGED scenarioVars

Tick ==
    /\ clock < MaxClock
    /\ clock' = clock + 1
    /\ UNCHANGED <<disk, posix, deposits, procs, calls, known, first_run, todo, current>>
    /\ UNCHANGED scenarioVars

\* ------------------------------------------------------------------ watcher
\* run() starts one thread per stage directory; the thread of stage s is
\* inside _process_file_safely while a call of its stage is in flight.
\* The watcher hands the file to a worker and goes on without waiting.
NonBlockingCall(s) == FALSE
\* One thread for all stages: a watcher waits for every call in flight.
AnyThreadBlocked(s) == calls # {}
ThreadBlocked(s) == \E c \in calls : c.stage = s

\* {f: f.stat().st_mtime for f in directory_path.iterdir() if f.is_file()}
Listing(d, s) ==
    [stem \in {x \in Stems : IsFile(d, RootFile(s, x))} |-> d.fs[RootFile(s, stem)].m]

\* A watcher that reports every file it has ever known.
KnownAndCurrent(cur, kn, first) == DOMAIN cur \cup DOMAIN kn

\* A watcher whose first iteration only takes the baseline (the line 82 that
\* is commented out).
BaselineOnly(cur, kn, first) ==
    IF first THEN {}
    ELSE {f \in DOMAIN cur : f \notin DOMAIN kn \/ kn[f] < cur[f]}

\* A watcher that takes an equal mtime for a modification.
ModifiedOrSame(cur, kn, first) ==
    IF first THEN DOMAIN cur
    ELSE {f \in DOMAIN cur : f \notin DOMAIN kn \/ kn[f] <= cur[f]}

NewOrModified(cur, kn, first) ==
    IF first THEN DOMAIN cur
    ELSE {f \in DOMAIN cur : f \notin DOMAIN kn \/ kn[f] < cur[f]}

\* The directory listing comes in an order the file system chooses.
Orderings(S) ==
    {q \in [1..Cardinality(S) -> S] : \A i, j \in 1..Cardinality(S) : i # j => q[i] # q[j]}

\* One iteration of the polling loop up to its for loop.  current_files is
\* read only inside the for loop, so it is kept only while the loop runs.
Poll(s) ==
    /\ ~ThreadBlocked(s)
    /\ todo[s] = <<>>
    /\ LET cur == Listing(disk, s)
           new == NewOrModified(cur, known[s], first_run[s])
       IN  /\ \E order \in Orderings(new) : todo' = [todo EXCEPT ![s] = order]
           /\ current' = [current EXCEPT ![s] = IF new = {} THEN NoFiles ELSE cur]
           /\ first_run' = [first_run EXCEPT ![s] = FALSE]
           /\ previous' = [previous EXCEPT ![s] = cur]
    /\ UNCHANGED <<disk, clock, posix, deposits, procs, calls, known>>
    /\ UNCHANGED <<crashed, ncalls, mirrored, lastCall, dashVars, safely, lastOp, outcome, handed, purges>>

\* The record of a hand-over: the file, the mtime the listing read and
\* whether the thread of another stage was inside process_file at the time.
HandOver(s, f) ==
    [file |-> f, mtime |-> current[s][f],
     peers_busy |-> \E c \in calls : c.stage # s /\ ~Finished(c)]

\* _process_file_safely(file_path) calls process_file.
Emit(s) ==
    /\ ~ThreadBlocked(s)
    /\ todo[s] # <<>>
    /\ calls' = calls \cup {NewCall(s, Head(todo[s]))}
    /\ handed' = [handed EXCEPT ![s] = @ \cup {HandOver(s, Head(todo[s]))}]
    /\ UNCHANGED <<disk, clock, posix, deposits, procs, known, first_run, todo, current>>
    /\ UNCHANGED <<crashed, ncalls, mirrored, lastCall, dashVars, safely, lastOp, previous, outcome, purges>>

\* What process_file raises: the guard (line 227) and the handler's move_file
\* of a vanished original both raise FileNotFoundError.
ErrorOf(c) == IF c.pc = "raised" THEN "FileNotFoundError" ELSE "none"

\* _process_file_safely, lines 127-133: except FileNotFoundError, except Exception.
CaughtBySafely == {"FileNotFoundError", "Exception"}
EscapesAll(c) == c.pc = "raised"
Escapes(c) == c.pc = "raised" /\ ErrorOf(c) \notin CaughtBySafely

\* process_file returned or raised.  After a normal end of
\* _process_file_safely the loop body goes on with known_files =
\* current_files.copy(); an exception leaving it would end the for loop in
\* the except clause of line 111, and the while loop would go on.
Return(c) ==
    /\ c \in calls
    /\ Finished(c)
    /\ calls' = calls \ {c}
    /\ IF Escapes(c)
       THEN /\ safely' = [safely EXCEPT ![c.stage] = "escaped"]
            /\ todo' = [todo EXCEPT ![c.stage] = <<>>]
            /\ current' = [current EXCEPT ![c.stage] = NoFiles]
            /\ UNCHANGED known
       ELSE /\ known' = [known EXCEPT ![c.stage] = current[c.stage]]
            /\ todo' = [todo EXCEPT ![c.stage] = IF @ = <<>> THEN <<>> ELSE Tail(@)]
            /\ current' = [current EXCEPT ![c.stage] =
                              IF Len(todo[c.stage]) <= 1 THEN NoFiles ELSE @]
            /\ safely' = [safely EXCEPT ![c.stage] =
                             IF c.pc = "raised" THEN "logged" ELSE "returned"]
    /\ outcome' = [outcome EXCEPT ![c.stage] =
                       IF c.pc = "returned" /\ c.result THEN "ok" ELSE "failed"]
    /\ UNCHANGED <<disk, clock, posix, deposits, procs, first_run>>
    /\ UNCHANGED <<crashed, ncalls, mirrored, lastCall, dashVars, lastOp, previous, handed, purges>>

\* ------------------------------------------------- the steps of process_file
Apply(c, n) ==
    /\ disk' = n.d
    /\ calls' = (calls \ {c}) \cup {n.c}
    /\ UNCHANGED <<clock, posix, deposits, procs, known, first_run, todo, current>>

Guard(c) ==
    /\ c \in calls /\ c.pc = "guard"
    /\ Apply(c, StepGuard(disk, c))
    /\ UNCHANGED scenarioVars

Copy(c) ==
    /\ c \in calls /\ c.pc = "copy"
    /\ Apply(c, StepCopy(disk, c, clock))
    /\ UNCHANGED scenarioVars

Dispatch(c) ==
    /\ c \in calls /\ c.pc = "dispatch"
    /\ \E beh \in procs[c.stage] : Apply(c, StepDispatch(disk, c, clock, beh))
    /\ UNCHANGED scenarioVars

MirrorIn(c) ==
    /\ c \in calls /\ c.pc = "mirror_in"
    /\ Apply(c, StepMirrorIn(disk, c, clock, posix))
    /\ UNCHANGED scenarioVars

MirrorOut(c) ==
    /\ c \in calls /\ c.pc = "mirror_out"
    /\ Apply(c, StepMirrorOut(disk, c, clock, posix))
    /\ UNCHANGED scenarioVars

Branch(c) ==
    /\ c \in calls /\ c.pc = "branch"
    /\ Apply(c, StepBranch(disk, c, clock, posix))
    /\ UNCHANGED scenarioVars

Handler(c) ==
    /\ c \in calls /\ c.pc = "handler"
    /\ Apply(c, StepHandler(disk, c))
    /\ UNCHANGED scenarioVars

vars == <<disk, clock, posix, deposits, procs, calls, known, first_run, todo, current,
          crashed, ncalls, mirrored, lastCall, pipelines, registered, global_stats,
          clients, frame, dnow, dticks, nupdates, sweep, broken, bcast, lastMsg, safely,
          lastOp, previous, outcome, handed, purges>>

\* --------------------------------------------- the pipeline with its watchers
Init == InitPipeline /\ InitScenario

Next ==
    \/ \E s \in Stages, stem \in Stems : Deposit(s, stem)
    \/ Tick
    \/ \E s \in Stages : Poll(s)
    \/ \E s \in Stages : Emit(s)
    \/ \E c \in calls : Guard(c)
    \/ \E c \in calls : Copy(c)
    \/ \E c \in calls : Dispatch(c)
    \/ \E c \in calls : MirrorIn(c)
    \/ \E c \in calls : MirrorOut(c)
    \/ \E c \in calls : Branch(c)
    \/ \E c \in calls : Handler(c)
    \/ \E c \in calls : Return(c)

Spec == Init /\ [][Next]_vars

\* The stages whose processor may run for ever: nothing is assumed about
\* the thread of such a stage.  The thread of every other stage is scheduled
\* fairly: the threads are daemon threads of their own (lines 60-66) and the
\* main thread only sleeps (lines 70-71).
SlowStages == {1}

ThreadStep(s) ==
    \/ Poll(s)
    \/ Emit(s)
    \/ \E c \in calls :
           /\ c.stage = s
           /\ \/ Guard(c) \/ Copy(c) \/ Dispatch(c) \/ MirrorIn(c) \/ MirrorOut(c)
              \/ Branch(c) \/ Handler(c) \/ Return(c)

\* The processors of the fair runs: one that succeeds, one that returns
\* False and one that raises.
FairBehaviours == {"ok_move", "false", "raise"}

\* The fair runs start with a file waiting in the root of a slow stage.
InitFair ==
    /\ \E s \in SlowStages, stem \in Stems :
           disk = [FreshDisk EXCEPT !.fs = Put(@, RootFile(s, stem),
                                               [c |-> OriginalContent, m |-> 0])]
    /\ clock = 0
    /\ posix = TRUE
    /\ deposits = 1
    /\ procs = [s \in Stages |-> FairBehaviours]
    /\ calls = {}
    /\ known = [s \in Stages |-> NoFiles]
    /\ first_run = [s \in Stages |-> TRUE]
    /\ todo = [s \in Stages |-> <<>>]
    /\ current = [s \in Stages |-> NoFiles]
    /\ InitScenario

SpecFair ==
    InitFair /\ [][Next]_vars /\ \A s \in Stages \ SlowStages : WF_vars(ThreadStep(s))

\* ------------------------------------------- direct calls of the audit mirror
\* reflect_to_pipeline_storage called directly, as its tests do: a fixture
\* writes a file into a stage folder, the test mirrors it.  The sources are
\* the two folders process_file mirrors from (lines 277 and 278).
MirrorSources(s) == {StageDir(s), ProcessedDir(s)}

InitMirror ==
    /\ disk = FreshDisk
    /\ clock = 0
    /\ posix \in BOOLEAN
    /\ deposits = 0
    /\ procs = [s \in Stages |-> Behaviours]
    /\ calls = {}
    /\ known = [s \in Stages |-> NoFiles]
    /\ first_run = [s \in Stages |-> TRUE]
    /\ todo = [s \in Stages |-> <<>>]
    /\ current = [s \in Stages |-> NoFiles]
    /\ InitScenario

\* The fixture (or any writer) creates the file to be mirrored.
WriteFile(s, dir, stem) ==
    /\ dir \in MirrorSources(s)
    /\ ~IsFile(disk, PathOf(dir, PlainName(stem)))
    /\ deposits < MaxDeposits
    /\ deposits' = deposits + 1
    /\ disk' = [disk EXCEPT !.fs = Put(@, PathOf(dir, PlainName(stem)),
                                       [c |-> OriginalContent, m |-> MTime(dir, clock)]),
                            !.dirs = @ \cup Ancestors(dir)]
    /\ UNCHANGED <<clock, posix, procs, calls, known, first_run, todo, current>>
    /\ UNCHANGED scenarioVars

CallReflect(s, dir, stem, result) ==
    /\ ncalls < MaxCalls
    /\ dir \in MirrorSources(s)
    /\ LET p == PathOf(dir, PlainName(stem))
           existed == IsFile(disk, p)
           r == ReflectToPipelineStorage(disk, s, p, result, clock, posix)
       IN  /\ disk' = r.d
           /\ lastCall' = [stage |-> s, stem |-> stem, dir |-> dir, result |-> result,
                           existed |-> existed,
                           content |-> IF existed THEN disk.fs[p].c ELSE 0,
                           ok |-> r.ok]
           /\ mirrored' = IF result /\ existed /\ r.ok THEN mirrored + 1 ELSE mirrored
    /\ ncalls' = ncalls + 1
    /\ UNCHANGED <<clock, posix, deposits, procs, calls, known, first_run, todo, current>>
    /\ UNCHANGED <<crashed, dashVars, auxVars>>

\* A new process starts with empty lru caches.
FreshProcess ==
    /\ disk.cache # EmptyCache
    /\ disk' = [disk EXCEPT !.cache = EmptyCache]
    /\ purges' = [purges EXCEPT !.gone = {}]
    /\ UNCHANGED <<clock, posix, deposits, procs, calls, known, first_run, todo, current>>
    /\ UNCHANGED <<crashed, ncalls, mirrored, lastCall, dashVars, safely, lastOp, previous,
                   outcome, handed>>

NextMirror ==
    \/ \E s \in Stages, stem \in Stems : \E dir \in MirrorSources(s) : WriteFile(s, dir, stem)
    \/ \E s \in Stages, stem \in Stems, result \in BOOLEAN :
           \E dir \in MirrorSources(s) : CallReflect(s, dir, stem, result)
    \/ FreshProcess
    \/ Tick

SpecMirror == InitMirror /\ [][NextMirror]_vars

\* ---------------------------------------------------- purging the audit store
MaxPurges == 2

\* Path.iterdir(): the files and the folders directly in a directory.
FilesIn(d, dir) == {p \in DOMAIN d.fs : p.dir = dir}
DirsIn(d, dir) == {x \in d.dirs : Len(x) = Len(dir) + 1 /\ SubSeq(x, 1, Len(dir)) = dir}
FileItem(p) == [is_file |-> TRUE, file |-> p, dir |-> p.dir]
DirItem(x) == [is_file |-> FALSE, file |-> PathOf(x, PlainName("")), dir |-> x]
IterDir(d, dir) ==
    {FileItem(p) : p \in FilesIn(d, dir)} \cup {DirItem(x) : x \in DirsIn(d, dir)}

\* The paths below the storage directory, which itself is not one of them.
UnderStorage(dir) == Len(dir) > 1 /\ dir[1] = StorageDir[1]

\* Path.unlink(): raises for a file the system refuses to remove (stuck).
Unlink(d, p, stuck) ==
    IF p \in stuck THEN [d |-> d, ok |-> FALSE]
    ELSE [d |-> [d EXCEPT !.fs = Del(@, p)], ok |-> TRUE]

\* Path.rmdir(): raises OSError for a directory that is not empty.
RemoveDir(d, x) ==
    IF IterDir(d, x) # {} THEN [d |-> d, ok |-> FALSE]
    ELSE [d |-> [d EXCEPT !.dirs = @ \ {x}], ok |-> TRUE]

\* The inner loop (lines 354-358) over the items of one folder of the store,
\* in the order the file system lists them; the first exception ends it.
RECURSIVE PurgeSubItems(_, _, _)
PurgeSubItems(d, items, stuck) ==
    IF items = <<>> THEN [d |-> d, ok |-> TRUE]
    ELSE LET sub_item == Head(items)
             r == IF sub_item.is_file THEN Unlink(d, sub_item.file, stuck)
                  ELSE RemoveDir(d, sub_item.dir)
         IN  IF ~r.ok THEN r ELSE PurgeSubItems(r.d, Tail(items), stuck)

\* The outer loop (lines 349-359): a file is unlinked, a folder is emptied by
\* the inner loop and then removed; the first exception ends the purge.
RECURSIVE PurgeItems(_, _, _, _)
PurgeItems(d, items, inner, stuck) ==
    IF items = <<>> THEN [d |-> d, ok |-> TRUE]
    ELSE LET item == Head(items)
             r == IF item.is_file THEN Unlink(d, item.file, stuck)
                  ELSE LET sub == PurgeSubItems(d, inner[item.dir], stuck)
                       IN  IF ~sub.ok THEN sub ELSE RemoveDir(sub.d, item.dir)
         IN  IF ~r.ok THEN r ELSE PurgeItems(r.d, Tail(items), inner, stuck)

\* purge_pipeline_storage(): raises FileNotFoundError without the storage
\* directory; otherwise runs the two loops and re-raises their first
\* exception (lines 362-364).  The lru caches of the file operations are not
\* touched.  Returns [d, ok].
PurgePipelineStorage(d, outer, inner, stuck) ==
    IF StorageDir \notin d.dirs THEN [d |-> d, ok |-> FALSE]
    ELSE PurgeItems(d, outer, inner, stuck)

\* The orders in which the folders of the store list their items.
InnerOrders(d) ==
    LET tops == DirsIn(d, StorageDir)
    IN  {f \in [tops -> UNION {Orderings(IterDir(d, x)) : x \in tops}] :
            \A x \in tops : f[x] \in Orderings(IterDir(d, x))}

\* An operator files a record of a stage away in a folder of its own inside
\* the store.
FileAway(s) ==
    /\ deposits < MaxDeposits
    /\ StorageSubdir(s) \in disk.dirs
    /\ LET old == StorageSubdir(s) \o <<"old">>
       IN  /\ old \notin disk.dirs
           /\ disk' = [disk EXCEPT !.dirs = @ \cup {old},
                                   !.fs = Put(@, PathOf(old, PlainName("doc")),
                                              [c |-> OriginalContent, m |-> 0])]
    /\ deposits' = deposits + 1
    /\ UNCHANGED <<clock, posix, procs, calls, known, first_run, todo, current>>
    /\ UNCHANGED scenarioVars

\* One call of purge_pipeline_storage.  The file system chooses the listing
\* orders and may refuse to remove one file of the store.
Purge ==
    /\ purges.n < MaxPurges
    /\ \E outer \in Orderings(IterDir(disk, StorageDir)), inner \in InnerOrders(disk),
          stuck \in {S \in SUBSET {p \in DOMAIN disk.fs : UnderStorage(p.dir)} :
                        Cardinality(S) <= 1} :
           LET r == PurgePipelineStorage(disk, outer, inner, stuck)
           IN  /\ disk' = r.d
               /\ purges' = [n |-> purges.n + 1, ok |-> r.ok, stuck |-> stuck,
                             gone |-> purges.gone \cup (disk.dirs \ r.d.dirs)]
    /\ UNCHANGED <<clock, posix, deposits, procs, calls, known, first_run, todo, current>>
    /\ UNCHANGED <<crashed, ncalls, mirrored, lastCall, dashVars, safely, lastOp, previous,
                   outcome, handed>>

NextPurge ==
    \/ \E s \in Stages, stem \in Stems : \E dir \in MirrorSources(s) : WriteFile(s, dir, stem)
    \/ \E s \in Stages, stem \in Stems : \E dir \in MirrorSources(s) :
           CallReflect(s, dir, stem, TRUE)
    \/ \E s \in Stages : FileAway(s)
    \/ Purge
    \/ FreshProcess

SpecPurge == InitMirror /\ [][NextPurge]_vars

\* ------------------------------------------ move_file and copy_file called
\* A caller (the tests, process_file, the mirror) moves and copies files
\* between directories in one process; files are created again in between.
OpDirs == {StageDir(1), WorkingDir(1), ProcessedDir(1)}

CallMoveFile(src, stem, dir) ==
    /\ ncalls < MaxCalls
    /\ src \in OpDirs /\ dir \in OpDirs /\ src # dir
    /\ LET p == PathOf(src, PlainName(stem))
           r == MoveFile(disk, p, dir)
       IN  /\ disk' = r.d
           /\ lastOp' = [op |-> "move", src |-> p, dir |-> dir, ok |-> r.ok,
                         res |-> IF r.ok THEN "returned" ELSE "raised"]
    /\ ncalls' = ncalls + 1
    /\ UNCHANGED <<clock, posix, deposits, procs, calls, known, first_run, todo, current>>
    /\ UNCHANGED <<crashed, mirrored, lastCall, dashVars, safely, previous, outcome, handed, purges>>

CallCopyFile(src, stem, dir) ==
    /\ ncalls < MaxCalls
    /\ src \in OpDirs /\ dir \in OpDirs /\ src # dir
    /\ LET p == PathOf(src, PlainName(stem))
           r == CopyFile(disk, p, dir, clock)
       IN  /\ disk' = r.d
           /\ lastOp' = [op |-> "copy", src |-> p, dir |-> dir, ok |-> r.ok,
                         res |-> IF r.ok THEN "returned" ELSE "raised"]
    /\ ncalls' = ncalls + 1
    /\ UNCHANGED <<clock, posix, deposits, procs, calls, known, first_run, todo, current>>
    /\ UNCHANGED <<crashed, mirrored, lastCall, dashVars, safely, previous, outcome, handed, purges>>

CallCheckFileIsReady(src, stem, vanishes) ==
    /\ ncalls < MaxCalls
    /\ src \in OpDirs
    /\ LET p == PathOf(src, PlainName(stem))
           r == CheckFileIsReady(disk, p, vanishes)
       IN  /\ disk' = r.d
           /\ lastOp' = [op |-> "probe", src |-> p, dir |-> <<>>, ok |-> r.res # "raised",
                         res |-> r.res]
    /\ ncalls' = ncalls + 1
    /\ UNCHANGED <<clock, posix, deposits, procs, calls, known, first_run, todo, current>>
    /\ UNCHANGED <<crashed, mirrored, lastCall, dashVars, safely, previous, outcome, handed, purges>>

NextOps ==
    \/ \E s \in {1}, stem \in Stems : Deposit(s, stem)
    \/ \E src \in OpDirs, dir \in OpDirs, stem \in Stems : CallMoveFile(src, stem, dir)
    \/ \E src \in OpDirs, dir \in OpDirs, stem \in Stems : CallCopyFile(src, stem, dir)
    \/ \E src \in OpDirs, stem \in Stems, vanishes \in BOOLEAN :
           CallCheckFileIsReady(src, stem, vanishes)
    \/ FreshProcess
    \/ Tick

SpecOps == InitMirror /\ [][NextOps]_vars

\* ------------------------------------------------- a run killed and run again
\* One file lies in a stage root and process_file runs on it; the process may
\* be killed once between the copy into working/ and the branch on the
\* result, after which a fresh process runs process_file on the same file.
StartDisk(s, stem) ==
    [FreshDisk EXCEPT !.fs = Put(@, RootFile(s, stem), [c |-> OriginalContent, m |-> 0])]

InitCrash ==
    /\ \E s \in Stages, stem \in Stems, beh \in AllBehaviours :
          /\ \E w \in SUBSET {RootFile(s, stem)} :
                disk = [StartDisk(s, stem) EXCEPT !.writing = w]
          /\ calls = {NewCall(s, stem)}
          /\ procs = [t \in Stages |-> {beh}]
    /\ clock = 0
    /\ posix \in BOOLEAN
    /\ deposits = 0
    /\ known = [s \in Stages |-> NoFiles]
    /\ first_run = [s \in Stages |-> TRUE]
    /\ todo = [s \in Stages |-> <<>>]
    /\ current = [s \in Stages |-> NoFiles]
    /\ InitScenario

KillPoints == {"dispatch", "mirror_in", "mirror_out", "branch"}

Crash(c) ==
    /\ c \in calls
    /\ ~crashed
    /\ c.pc \in KillPoints
    /\ crashed' = TRUE
    /\ disk' = [disk EXCEPT !.cache = EmptyCache]
    /\ calls' = {NewCall(c.stage, c.stem)}
    /\ UNCHANGED <<clock, posix, deposits, procs, known, first_run, todo, current>>
    /\ UNCHANGED <<ncalls, mirrored, lastCall, dashVars, auxVars>>

\* The external writer closes the file.
FinishWriting ==
    /\ disk.writing # {}
    /\ disk' = [disk EXCEPT !.writing = {}]
    /\ UNCHANGED <<clock, posix, deposits, procs, calls, known, first_run, todo, current>>
    /\ UNCHANGED scenarioVars

NextCrash ==
    \/ \E c \in calls : Guard(c)
    \/ \E c \in calls : Copy(c)
    \/ \E c \in calls : Dispatch(c)
    \/ \E c \in calls : MirrorIn(c)
    \/ \E c \in calls : MirrorOut(c)
    \/ \E c \in calls : Branch(c)
    \/ \E c \in calls : Handler(c)
    \/ \E c \in calls : Crash(c)
    \/ FinishWriting
    \/ Tick

SpecCrash == InitCrash /\ [][NextCrash]_vars

\* ---------------------------------------------------------------- dashboard
\* Bounds of the dashboard scenario.
MaxTicks == 2
MaxUpdates == 2

PipelineIds == {"p1", "p2"}
Clients == {"c1"}
AllClients == {"c1", "c2"}
Statuses == {"idle", "running", "completed", "failed", "paused"}
\* time_diff > 300 (line 148) and asyncio.sleep(60) (line 154)
Timeout == 300
SweepPeriod == 60
TimeoutMessage == "Pipeline timeout - no updates received"
\* How far the clock moves between two events.
TimeSteps == {SweepPeriod, Timeout, Timeout + 1}

\* A pipeline_update payload: the id and the status may be unusable, the
\* error_message may be absent ("none").
Payloads ==
    [pipeline_id : PipelineIds \cup {"absent"},
     status : Statuses \cup {"bogus"},
     error_message : {"none", "boom"}]
\* A handler that does not look at the status.
AnyStatus(pl) == pl.pipeline_id \in PipelineIds
ValidPayload(pl) == pl.pipeline_id \in PipelineIds /\ pl.status \in Statuses

\* update_global_stats (lines 82-92); paused pipelines are in no count but the total.
CountOf(ps, st) == Cardinality({id \in DOMAIN ps : ps[id].status = st})
UpdateGlobalStats(ps) ==
    [total_pipelines |-> Cardinality(DOMAIN ps),
     active_pipelines |-> CountOf(ps, "running"),
     failed_pipelines |-> CountOf(ps, "failed"),
     completed_pipelines |-> CountOf(ps, "completed"),
     idle_pipelines |-> CountOf(ps, "idle")]

\* A broadcast that sends the counts of the frame before.
BroadcastStaleStats(cl, ps, stats, old) ==
    IF cl = {} THEN old
    ELSE [sent |-> TRUE, global_stats |-> old.global_stats, pipelines |-> ps]

\* broadcast_updates (lines 98-118): nothing is built without a client.
BroadcastUpdates(cl, ps, stats, old) ==
    IF cl = {} THEN old
    ELSE [sent |-> TRUE, global_stats |-> stats, pipelines |-> ps]

\* lines 116-118: asyncio.gather starts every send; a send that raises is
\* propagated to the caller and the other sends are not cancelled.
StopAtFirstFailure(targets, failed) == IF failed = {} THEN targets ELSE {}
Gather(targets, failed) == targets \ failed

\* Who was sent the frame, whose send raised, who got it.
Deliver(cl, br, by, old) ==
    IF cl = {} THEN old
    ELSE [by |-> by, targets |-> cl, failed |-> cl \cap br, got |-> Gather(cl, cl \cap br)]

\* broadcast_updates catches nothing: the first failing send raises out of it.
BroadcastRaises(cl, br) == cl \cap br # {}

\* A map that holds nothing but the pipeline of the payload.
ReplaceAll(ps, pl, now) ==
    [id \in {pl.pipeline_id} |->
        [status |-> pl.status, last_update |-> now, error_message |-> "none"]]

\* update_pipeline_status lines 57-73: a new id is registered without the
\* payload's error_message; a known id keeps its error_message unless the
\* payload carries one.
Upsert(ps, pl, now) ==
    IF pl.pipeline_id \notin DOMAIN ps
    THEN [id \in DOMAIN ps \cup {pl.pipeline_id} |->
            IF id = pl.pipeline_id
            THEN [status |-> pl.status, last_update |-> now,
                  error_message |-> "none"]
            ELSE ps[id]]
    ELSE [ps EXCEPT ![pl.pipeline_id] =
            [status |-> pl.status, last_update |-> now,
             error_message |-> IF pl.error_message # "none" THEN pl.error_message
                               ELSE @.error_message]]

\* handle_message with type pipeline_update (lines 128-129, 50-76).  A payload
\* without pipeline_id or with an unknown status raises before any mutation.
PipelineUpdate(pl) ==
    /\ nupdates < MaxUpdates
    /\ nupdates' = nupdates + 1
    /\ lastMsg' = [type |-> "pipeline_update", id |-> pl.pipeline_id, status |-> pl.status,
                   error_message |-> pl.error_message, at |-> dnow,
                   before |-> IF pl.pipeline_id \in DOMAIN pipelines
                              THEN pipelines[pl.pipeline_id].last_update ELSE -1]
    /\ IF ValidPayload(pl)
       THEN /\ pipelines' = Upsert(pipelines, pl, dnow)
            /\ registered' = IF pl.pipeline_id \in DOMAIN pipelines THEN registered
                             ELSE Append(registered, pl.pipeline_id)
            /\ global_stats' = UpdateGlobalStats(pipelines')
            /\ frame' = BroadcastUpdates(clients, pipelines', global_stats', frame)
            /\ bcast' = Deliver(clients, broken, "update", bcast)
       ELSE UNCHANGED <<pipelines, registered, global_stats, frame, bcast>>
    /\ UNCHANGED <<clients, dnow, dticks, sweep, broken>>
    /\ UNCHANGED <<pipeVars, crashed, ncalls, mirrored, lastCall>>

\* handle_heartbeat: a heartbeat only refreshes last_update of a known id.
Heartbeat(id) ==
    /\ nupdates < MaxUpdates
    /\ nupdates' = nupdates + 1
    /\ id \in DOMAIN pipelines
    /\ pipelines' = [pipelines EXCEPT ![id].last_update = dnow]
    /\ lastMsg' = [type |-> "pipeline_heartbeat", id |-> id, status |-> "",
                   error_message |-> "none", at |-> dnow,
                   before |-> pipelines[id].last_update]
    /\ UNCHANGED <<registered, global_stats, clients, frame, dnow, dticks, sweep, broken, bcast>>
    /\ UNCHANGED <<pipeVars, crashed, ncalls, mirrored, lastCall>>

\* handle_client: a subscriber connects.
Connect(cl) ==
    /\ cl \notin clients
    /\ clients' = clients \cup {cl}
    /\ UNCHANGED <<pipelines, registered, global_stats, frame, dnow, dticks, nupdates, sweep,
                   broken, bcast, lastMsg>>
    /\ UNCHANGED <<pipeVars, crashed, ncalls, mirrored, lastCall>>

DashTick(dt) ==
    /\ dticks < MaxTicks
    /\ dticks' = dticks + 1
    /\ dnow' = dnow + dt
    /\ UNCHANGED <<pipelines, registered, global_stats, clients, frame, nupdates, sweep,
                   broken, bcast, lastMsg>>
    /\ UNCHANGED <<pipeVars, crashed, ncalls, mirrored, lastCall>>

\* monitor_pipeline_timeouts, lines 143-144: the sweep starts with the clock
\* read once and a snapshot list of the map's items.
SweepStart ==
    /\ sweep.pc = "sleep"
    /\ dnow >= sweep.wake
    /\ sweep' = [pc |-> "loop", current_time |-> dnow, left |-> registered,
                 wake |-> sweep.wake]
    /\ UNCHANGED <<pipelines, registered, global_stats, clients, frame, dnow, dticks, nupdates,
                   broken, bcast, lastMsg>>
    /\ UNCHANGED <<pipeVars, crashed, ncalls, mirrored, lastCall>>

\* What the sweeper does to one pipeline (lines 145-150).
\* A sweeper that does not look at the age.
SweepAnyAge(p, current_time) ==
    IF p.status = "running"
    THEN [p EXCEPT !.status = "failed", !.error_message = TimeoutMessage]
    ELSE p

\* A sweeper that does not look at the status.
SweepAnyStatus(p, current_time) ==
    IF current_time - p.last_update > Timeout
    THEN [p EXCEPT !.status = "failed", !.error_message = TimeoutMessage]
    ELSE p

SweepPipeline(p, current_time) ==
    IF current_time - p.last_update > Timeout /\ p.status = "running"
    THEN [p EXCEPT !.status = "failed", !.error_message = TimeoutMessage]
    ELSE p

\* One turn of the for loop, lines 144-152.
SweepOne ==
    /\ sweep.pc = "loop"
    /\ sweep.left # <<>>
    /\ LET id == Head(sweep.left)
           after == SweepPipeline(pipelines[id], sweep.current_time)
       IN  /\ pipelines' = [pipelines EXCEPT ![id] = after]
           /\ IF after # pipelines[id]
              THEN /\ global_stats' = UpdateGlobalStats(pipelines')
                   /\ frame' = BroadcastUpdates(clients, pipelines', global_stats', frame)
                   /\ bcast' = Deliver(clients, broken, "sweeper", bcast)
                   /\ sweep' = [sweep EXCEPT !.left = Tail(@),
                                  !.pc = IF BroadcastRaises(clients, broken)
                                         THEN "dead" ELSE @]
              ELSE /\ UNCHANGED <<global_stats, frame, bcast>>
                   /\ sweep' = [sweep EXCEPT !.left = Tail(@)]
    /\ UNCHANGED <<registered, clients, dnow, dticks, nupdates, broken, lastMsg>>
    /\ UNCHANGED <<pipeVars, crashed, ncalls, mirrored, lastCall>>

\* line 154: asyncio.sleep(60)
SweepSleep ==
    /\ sweep.pc = "loop"
    /\ sweep.left = <<>>
    /\ sweep' = [pc |-> "sleep", current_time |-> 0, left |-> <<>>,
                 wake |-> dnow + SweepPeriod]
    /\ UNCHANGED <<pipelines, registered, global_stats, clients, frame, dnow, dticks, nupdates,
                   broken, bcast, lastMsg>>
    /\ UNCHANGED <<pipeVars, crashed, ncalls, mirrored, lastCall>>

\* The connection of a subscriber closes; its handler has not returned yet.
Disconnect(cl) ==
    /\ cl \in clients \ broken
    /\ broken' = broken \cup {cl}
    /\ UNCHANGED <<pipelines, registered, global_stats, clients, frame, dnow, dticks,
                   nupdates, sweep, bcast, lastMsg>>
    /\ UNCHANGED <<pipeVars, crashed, ncalls, mirrored, lastCall>>

InitDash == InitPipeline /\ InitScenario

NextDash ==
    \/ \E pl \in Payloads : PipelineUpdate(pl)
    \/ \E id \in PipelineIds : Heartbeat(id)
    \/ \E cl \in Clients : Connect(cl)
    \/ \E dt \in TimeSteps : DashTick(dt)
    \/ SweepStart
    \/ SweepOne
    \/ SweepSleep

SpecDash == InitDash /\ [][NextDash]_vars

\* ------------------------------------------------------- the sweeper in time
\* How many times the clock is moved to the sweeper's next wake-up.
MaxSweeps == 8

\* Pipelines reporting that they run.
RunningPayloads ==
    {pl \in Payloads : ValidPayload(pl) /\ pl.status = "running" /\ pl.error_message = "none"}

\* Time passes up to the moment asyncio.sleep(60) returns; a sweeper task that
\* ended with an exception is never woken again.
Elapse ==
    /\ dticks < MaxSweeps
    /\ dticks' = dticks + 1
    /\ \/ sweep.pc = "sleep" /\ sweep.wake > dnow /\ dnow' = sweep.wake
       \/ sweep.pc = "dead" /\ dnow' = dnow + SweepPeriod
    /\ UNCHANGED <<pipelines, registered, global_stats, clients, frame, nupdates, sweep,
                   broken, bcast, lastMsg>>
    /\ UNCHANGED <<pipeVars, crashed, ncalls, mirrored, lastCall>>

NextSweep ==
    \/ \E pl \in RunningPayloads : PipelineUpdate(pl)
    \/ \E cl \in AllClients : Connect(cl)
    \/ \E cl \in AllClients : Disconnect(cl)
    \/ Elapse
    \/ SweepStart
    \/ SweepOne
    \/ SweepSleep

SpecSweep == InitDash /\ [][NextSweep]_vars

\* ================================================================== claims
LastStage == CHOOSE s \in Stages : \A t \in Stages : t <= s
HasNextStage(s) == s + 1 \in Stages

UnderError(d, s, stem) ==
    \E p \in DOMAIN d.fs :
        /\ p.name.stem = stem
        /\ Len(p.dir) >= 3
        /\ SubSeq(p.dir, 1, 3) = ErrorDir(s)

AuditRecordsOf(d, s, stem) ==
    {p \in DOMAIN d.fs : p.dir = StorageSubdir(s) /\ p.name.stem = stem}

AuditRecords(d) ==
    {p \in DOMAIN d.fs : p.dir[1] = "store" /\ p.name.kind = "mirror"}

\* C1: once process_file has finished for an emitted file, by returning or by
\* raising, the file is in the stage's error/, in its processed/, in the next
\* stage's root or still in the stage root; it is never in none of them.
C1_NoFileDropped ==
    \A c \in calls :
        Finished(c) =>
            \/ UnderError(disk, c.stage, c.stem)
            \/ IsFile(disk, ProcessedFile(c.stage, c.stem))
            \/ HasNextStage(c.stage) /\ IsFile(disk, RootFile(c.stage + 1, c.stem))
            \/ IsFile(disk, RootFile(c.stage, c.stem))

\* C2: at every instant at most one process_file invocation is in flight per
\* stage directory, hence at most as many invocations as there are stages.
C2_OneCallPerStage ==
    /\ \A s \in Stages : Cardinality({c \in calls : c.stage = s}) <= 1
    /\ Cardinality(calls) <= Cardinality(Stages)

\* Two stages each have their processor about to run at the same instant.
C2_Witness ==
    \E c1, c2 \in calls :
        c1.stage # c2.stage /\ c1.pc = "dispatch" /\ c2.pc = "dispatch"

\* C3: when a stage with a later sibling processes a file whose processor
\* wrote processed/<filename> and returned true, then after process_file the
\* file is in the next stage's root and no longer in the stage's processed/.
C3_HappyPathAdvances ==
    \A c \in calls :
        (Finished(c) /\ HasNextStage(c.stage) /\ c.result
            /\ c.beh \in {"ok_move", "ok_write"}) =>
            /\ IsFile(disk, RootFile(c.stage + 1, c.stem))
            /\ ~IsFile(disk, ProcessedFile(c.stage, c.stem))

\* C4: when the processor returned false, after process_file the working copy
\* is the regular file <stage>/error/<filename>.err and the original is no
\* longer in the stage root.
C4_FailureRouting ==
    \A c \in calls :
        (Finished(c) /\ c.beh = "false") =>
            /\ IsFile(disk, PathOf(ErrorDir(c.stage), ErrName(c.stem)))
            /\ ~IsFile(disk, RootFile(c.stage, c.stem))

\* C5: after reflect_to_pipeline_storage was called with result=False for an
\* existing file of a stage, <storage>/<stage>/ holds a copy of it tagged
\* causing_error with the original's content.
C5_FailureAudited ==
    (lastCall.stage \in Stages /\ lastCall.existed /\ ~lastCall.result) =>
        \E p \in AuditRecordsOf(disk, lastCall.stage, lastCall.stem) :
            /\ p.name.tag = "causing_error"
            /\ disk.fs[p].c = lastCall.content

\* C6: when the last stage's processor returned true, after process_file the
\* file is under <stage>/processed/ and process_file has not raised.
C6_LastStageParks ==
    \A c \in calls :
        (Finished(c) /\ c.stage = LastStage /\ c.result) =>
            /\ IsFile(disk, ProcessedFile(c.stage, c.stem))
            /\ c.pc = "returned"

\* C7: every file whose run has passed the mirror-input step, on the success
\* and on the failure branch alike, has a record under <audit_root>/<stage>/.
C7_AuditedAfterMirrorInput ==
    \A c \in calls :
        c.pc \in {"mirror_out", "branch"} =>
            AuditRecordsOf(disk, c.stage, c.stem) # {}

\* C8: every successful mirror operation adds one new audit record and none
\* replaces an existing one: the store holds as many records as there were
\* mirror calls with result=True on an existing file.
C8_RecordsNeverOverwritten ==
    Cardinality(AuditRecords(disk)) = mirrored

\* What is compared between two runs: every file with its content, its audit
\* timestamp erased, and every directory.
Layout(d) ==
    [files |-> {<<p.dir, [p.name EXCEPT !.ts = 0], d.fs[p].c>> : p \in DOMAIN d.fs},
     dirs |-> d.dirs]

\* The uninterrupted run of process_file on the same file by the same processor.
Uninterrupted(c) ==
    RunToEnd(StartDisk(c.stage, c.stem), NewCall(c.stage, c.stem), 0, posix,
             CHOOSE beh \in procs[c.stage] : TRUE).d

\* C9: a run killed between the copy into working/ and the branch, then run
\* again in a fresh process, ends in the same layout of the stage, the next
\* stage and the audit store as an uninterrupted run, up to the timestamp.
C9_CrashReentrant ==
    \A c \in calls :
        (crashed /\ Finished(c)) => Layout(disk) = Layout(Uninterrupted(c))

\* C10: for every pipeline id last_update never decreases, in the map and
\* from one dashboard_update frame to the next, under any sequence of updates,
\* heartbeats and sweeps; a registered pipeline is never removed.
MonotoneFrom(old, new) ==
    \A id \in DOMAIN old :
        /\ id \in DOMAIN new
        /\ new[id].last_update >= old[id].last_update

C10_LastUpdateMonotone ==
    [][/\ MonotoneFrom(pipelines, pipelines')
       /\ MonotoneFrom(frame.pipelines, frame'.pipelines)]_vars

\* A second frame shows a pipeline with a later last_update than the map held
\* when it was registered, after the sweeper has flipped a pipeline.
C10_Witness ==
    /\ frame.sent
    /\ \E id \in DOMAIN frame.pipelines :
          /\ frame.pipelines[id].last_update > 0
          /\ frame.pipelines[id].status = "running"
    /\ \E id \in DOMAIN frame.pipelines : frame.pipelines[id].error_message = TimeoutMessage

\* C11: a pipeline that is running and has had no update or heartbeat for
\* 300 s is set to failed by the sweeper within 360 s of its last event: at
\* no time is a running pipeline's last event more than 360 s old.
C11_TimeoutBoundedResponse ==
    \A id \in DOMAIN pipelines :
        pipelines[id].status = "running" =>
            dnow - pipelines[id].last_update <= Timeout + SweepPeriod

\* C12: a step of the sweeper changes a pipeline only from running to failed,
\* only when its last_update is at least 300 s old, and then sets
\* error_message to "Pipeline timeout - no updates received"; every other
\* pipeline is left as it was.
SweeperStep ==
    /\ sweep.pc = "loop"
    /\ sweep.left # <<>>
    /\ sweep'.left = Tail(sweep.left)

C12_SweeperOnlyFailsStaleRunning ==
    [][SweeperStep =>
        \A id \in DOMAIN pipelines :
            pipelines'[id] # pipelines[id] =>
                /\ pipelines[id].status = "running"
                /\ dnow - pipelines[id].last_update >= Timeout
                /\ pipelines'[id] = [pipelines[id] EXCEPT !.status = "failed",
                        !.error_message = "Pipeline timeout - no updates received"]]_vars

\* The sweeper has failed one pipeline while another, running and exactly
\* 300 s old or in another status, is still as it was.
C12_Witness ==
    /\ \E id \in DOMAIN pipelines :
          /\ pipelines[id].status = "failed"
          /\ pipelines[id].error_message = TimeoutMessage
    /\ \E id \in DOMAIN pipelines :
          /\ pipelines[id].error_message # TimeoutMessage
          /\ dnow - pipelines[id].last_update >= Timeout
    /\ sweep.pc = "loop"
    /\ sweep.left = <<>>

\* C15: when the send of a frame to one client fails, every other connected
\* client still receives that frame.
C15_BestEffortPerClient ==
    bcast.got = bcast.targets \ bcast.failed

\* A frame was sent to two clients, one send failed, the other arrived.
C15_Witness ==
    /\ bcast.failed # {}
    /\ bcast.got # {}

\* C16: a send failure in a broadcast triggered by the sweeper removes the
\* failing client from the client set and leaves the sweeper running.
C16_SweepSurvivesSendFailure ==
    (bcast.by = "sweeper" /\ bcast.failed # {}) =>
        /\ bcast.failed \cap clients = {}
        /\ sweep.pc # "dead"

\* C13: a watcher about to poll a stage directory that holds no regular file
\* emits nothing and starts no process_file, in its first poll and in every
\* later one.
C13_EmptyStageNoEvents ==
    [][\A s \in Stages :
          (DOMAIN Listing(disk, s) = {} /\ todo[s] = <<>> /\ ~ThreadBlocked(s)) =>
              /\ todo'[s] = <<>>
              /\ {c \in calls' : c.stage = s} = {}]_vars

\* A stage has been polled for the first time and again after its only file
\* was processed and left the root: the directory is empty, the watcher still
\* knows the file, and nothing is pending.
C13_Witness ==
    \E s \in Stages :
        /\ ~first_run[s]
        /\ DOMAIN Listing(disk, s) = {}
        /\ DOMAIN known[s] # {}
        /\ todo[s] = <<>>
        /\ ~ThreadBlocked(s)
        /\ \E t \in Stages : ~first_run[t] /\ DOMAIN known[t] = {} /\ todo[t] = <<>>

\* C19: _process_file_safely calls process_file once per emitted file and lets
\* no exception out, and the polling loop of the stage can always run its
\* next iteration.
C19_WatcherSwallowsFailures ==
    /\ \A s \in Stages :
          /\ safely[s] # "escaped"
          /\ Cardinality({c \in calls : c.stage = s}) <= 1
          /\ (\E c \in calls : c.stage = s) => (todo[s] # <<>> /\ \A c \in calls :
                  c.stage = s => c.stem = Head(todo[s]))
          /\ (~ThreadBlocked(s) /\ todo[s] = <<>>) => ENABLED Poll(s)

\* The watcher has logged the exception of one process_file and is running
\* the next one of the same stage.
C19_Witness ==
    \E s \in Stages :
        /\ safely[s] = "logged"
        /\ \E c \in calls : c.stage = s /\ c.pc # "guard"

\* C14: while a file is still being written and the stability probe has
\* returned false for it, there is no copy of it in working/ and no processor
\* has been invoked on it.
C14_NoProcessingBeforeStable ==
    \A c \in calls :
        LET f == RootFile(c.stage, c.stem)
        IN  (f \in disk.writing /\ <<f, FALSE>> \in disk.cache.ready) =>
                /\ ~IsFile(disk, WorkingFile(c.stage, c.stem))
                /\ c.beh = "none"

\* C17: when the processor cannot be resolved (no module file, no entry
\* symbol, symbol not callable) the file ends as the regular file
\* <stage>/error/<filename>.err and the disk looks as after a processor that
\* returned false.
C17_ResolutionFailureIsFailure ==
    \A c \in calls :
        (~crashed /\ Finished(c) /\ c.beh \in ResolutionFailures) =>
            /\ IsFile(disk, PathOf(ErrorDir(c.stage), ErrName(c.stem)))
            /\ Layout(disk) =
                 Layout(RunToEnd(StartDisk(c.stage, c.stem), NewCall(c.stage, c.stem),
                                 0, posix, "false").d)

\* C18: every run of process_file that passed the guard and has ended is
\* known to the dashboard, and after a failed run the dashboard holds a
\* pipeline with status failed.
C18_RunEmitsDashboardEvent ==
    \A c \in calls :
        (Finished(c) /\ c.beh # "none") =>
            /\ DOMAIN pipelines # {}
            /\ (~c.result => \E id \in DOMAIN pipelines : pipelines[id].status = "failed")

\* C20: a call of move_file that returns normally leaves no source and a file
\* at the destination; a call of copy_file that returns normally leaves both;
\* on every call, repeated ones included.
C20_FileOpsTakeEffect ==
    [][(ncalls' = ncalls + 1 /\ lastOp'.op # "none" /\ lastOp'.ok) =>
          /\ IsFile(disk', PathOf(lastOp'.dir, lastOp'.src.name))
          /\ (lastOp'.op = "move" => ~IsFile(disk', lastOp'.src))
          /\ (lastOp'.op = "copy" => IsFile(disk', lastOp'.src))]_vars

\* C21: process_file called on a path that does not exist raises
\* FileNotFoundError at the guard and leaves the disk as it was: no directory,
\* no file, no cache entry, no audit record changes, and no processor has run.
C21_GuardChangesNothing ==
    [][\A c \in calls :
          (c.pc = "guard" /\ ~IsFile(disk, RootFile(c.stage, c.stem)) /\ c \notin calls') =>
              /\ disk' = disk
              /\ calls' = (calls \ {c}) \cup {[c EXCEPT !.pc = "raised"]}
              /\ c.beh = "none"
              /\ ErrorOf([c EXCEPT !.pc = "raised"]) = "FileNotFoundError"]_vars

\* The re-run after a kill has found its input gone and has raised at the guard.
C21_Witness ==
    \E c \in calls :
        /\ crashed
        /\ c.pc = "raised" /\ c.beh = "none"
        /\ ~IsFile(disk, RootFile(c.stage, c.stem))

\* C22: after reflect_to_pipeline_storage(stage, file, result=True) on an
\* existing file, <storage>/<stage>/ holds a file with the source's own name
\* and the source's content.
C22_MirrorKeepsNameAndContent ==
    (lastCall.result /\ lastCall.existed /\ lastCall.ok) =>
        LET q == PathOf(StorageSubdir(lastCall.stage), PlainName(lastCall.stem))
        IN  /\ IsFile(disk, q)
            /\ disk.fs[q].c = lastCall.content

\* C23: get_next_dir, called as process_file calls it for a file of stage s,
\* does not raise, returns None exactly for the last stage and otherwise the
\* directory of stage s + 1 under the pipeline root.
C23_NextDirIsSuccessor ==
    \A c \in calls :
        (c.pc = "branch" /\ c.result) =>
            LET r == GetNextDir(PathString(RootFile(c.stage, c.stem)))
            IN  /\ r.ok
                /\ r.none <=> c.stage = Cardinality(Stages)
                /\ ~r.none => r.ret = StageDir(c.stage + 1)

\* C24: from the copy into working/ to the end of the branch on the result
\* the original is in the stage root.
C24_OriginalStaysUntilLastStep ==
    \A c \in calls :
        c.pc \in {"dispatch", "mirror_in", "mirror_out", "branch"} =>
            IsFile(disk, RootFile(c.stage, c.stem))

\* C25: a run whose processor raised ends by returning, with the disk as a
\* run on the same file whose processor returned False leaves it.
C25_RaiseIsFalse ==
    \A c \in calls :
        (~crashed /\ Finished(c) /\ c.beh = "raise") =>
            /\ c.pc = "returned"
            /\ Layout(disk) =
                 Layout(RunToEnd(StartDisk(c.stage, c.stem), NewCall(c.stage, c.stem),
                                 0, posix, "false").d)

\* C26: a move_file that returns normally into a directory that already
\* holds a file of that name keeps the existing file as it was and stores the
\* moved one beside it, so the number of files stays the same.
C26_MoveNeverOverwrites ==
    [][(/\ ncalls' = ncalls + 1
        /\ lastOp'.op = "move" /\ lastOp'.ok
        /\ IsFile(disk, lastOp'.src)
        /\ IsFile(disk, PathOf(lastOp'.dir, lastOp'.src.name))) =>
          LET dst == PathOf(lastOp'.dir, lastOp'.src.name)
          IN  /\ IsFile(disk', dst)
              /\ disk'.fs[dst] = disk.fs[dst]
              /\ Cardinality(DOMAIN disk'.fs) = Cardinality(DOMAIN disk.fs)]_vars

\* C30: a call of check_file_is_ready does not raise, answers true only for a
\* file that is there and not changing during the call, and answers false for
\* a path that does not exist when the call starts.
C30_ProbeSamplesEveryCall ==
    [][(ncalls' = ncalls + 1 /\ lastOp'.op = "probe") =>
          LET p == lastOp'.src
          IN  /\ lastOp'.res # "raised"
              /\ lastOp'.res = "true" => (IsFile(disk, p) /\ p \notin disk.writing)
              /\ ~IsFile(disk, p) => lastOp'.res = "false"]_vars

\* The watcher of stage s is between two iterations: no call in flight and
\* nothing left of new_or_modified_files.
Idle(s) == ~ThreadBlocked(s) /\ todo[s] = <<>>
\* The files an iteration hands to _process_file_safely.
Emitted(q) == {q[i] : i \in 1..Len(q)}
\* The step is an iteration of the watcher of stage s up to its for loop.
PollStep(s) ==
    /\ Idle(s)
    /\ todo'[s] # todo[s] \/ previous'[s] # previous[s] \/ first_run'[s] # first_run[s]

\* C27: an iteration after the first emits exactly the files of its listing
\* that were not in the listing of the preceding iteration or have a greater
\* mtime than there.
C27_EmitsAgainstPrecedingListing ==
    [][\A s \in Stages :
          (PollStep(s) /\ ~first_run[s]) =>
              LET cur == Listing(disk, s)
              IN  Emitted(todo'[s]) =
                    {f \in DOMAIN cur : f \notin DOMAIN previous[s] \/ previous[s][f] < cur[f]}]_vars

\* C28: the first iteration emits every regular file in the stage root, and
\* an iteration that is not the first is never followed by a first one.
C28_FirstIterationEmitsAll ==
    [][\A s \in Stages :
          /\ (PollStep(s) /\ first_run[s]) =>
                 /\ Emitted(todo'[s]) = DOMAIN Listing(disk, s)
                 /\ ~first_run'[s]
          /\ ~first_run[s] => ~first_run'[s]]_vars

\* A file that was in the stage root before the watcher started has been
\* picked up by the first iteration.
C28_Witness ==
    \E s \in Stages :
        /\ ~first_run[s]
        /\ known[s] = NoFiles /\ safely[s] = "none"
        /\ todo[s] # <<>>
        /\ IsFile(disk, RootFile(s, Head(todo[s])))

\* C29: when the last run of a stage failed and its file, the only one ever
\* deposited, is still in the stage root with the mtime the watcher has
\* seen, the next iteration of the watcher selects the file again.
C29_RetryByRedetection ==
    \A s \in Stages : \A f \in Stems :
        (/\ Idle(s)
         /\ outcome[s] = "failed"
         /\ deposits = 1
         /\ f \in DOMAIN known[s]
         /\ IsFile(disk, RootFile(s, f))
         /\ disk.fs[RootFile(s, f)].m = known[s][f]) =>
            f \in NewOrModified(Listing(disk, s), known[s], first_run[s])

\* The step handled an inbound message of this type.
Handled(type) == nupdates' = nupdates + 1 /\ lastMsg'.type = type

\* C31: in every dashboard_update frame the total is the number of pipelines
\* of the frame and the active, failed, completed and idle counts are the
\* numbers of its pipelines that are running, failed, completed and idle; a
\* pipeline_update with a usable payload adds an unknown id, sets the status
\* of its id and leaves every other pipeline alone.
C31_FrameIsConsistentSnapshot ==
    /\ [](frame.sent =>
            LET ps == frame.pipelines
                n(st) == Cardinality({id \in DOMAIN ps : ps[id].status = st})
            IN  /\ frame.global_stats.total_pipelines = Cardinality(DOMAIN ps)
                /\ frame.global_stats.active_pipelines = n("running")
                /\ frame.global_stats.failed_pipelines = n("failed")
                /\ frame.global_stats.completed_pipelines = n("completed")
                /\ frame.global_stats.idle_pipelines = n("idle"))
    /\ [][(/\ Handled("pipeline_update")
           /\ lastMsg'.id \in PipelineIds /\ lastMsg'.status \in Statuses) =>
             /\ DOMAIN pipelines' = DOMAIN pipelines \cup {lastMsg'.id}
             /\ pipelines'[lastMsg'.id].status = lastMsg'.status
             /\ \A o \in DOMAIN pipelines \ {lastMsg'.id} : pipelines'[o] = pipelines[o]]_vars

\* The frame sent by the sweeper shows two pipelines, one of them failed by
\* the timeout.
C31_Witness ==
    /\ frame.sent
    /\ bcast.by = "sweeper"
    /\ Cardinality(DOMAIN frame.pipelines) = 2
    /\ \E id \in DOMAIN frame.pipelines :
          frame.pipelines[id].error_message = TimeoutMessage
    /\ \E id \in DOMAIN frame.pipelines : frame.pipelines[id].status # "failed"

\* C32: a heartbeat for a known pipeline sets that pipeline's last_update and
\* nothing else in the map, the counts or the frame; and the sweeper does not
\* fail a running pipeline whose last heartbeat is at most 300 s older than
\* the time the sweep read.
C32_HeartbeatOnlyRefreshes ==
    /\ [][Handled("pipeline_heartbeat") =>
             /\ lastMsg'.id \in DOMAIN pipelines
             /\ pipelines' = [pipelines EXCEPT ![lastMsg'.id].last_update = dnow]
             /\ global_stats' = global_stats
             /\ registered' = registered
             /\ frame' = frame]_vars
    /\ [][SweeperStep =>
             \A id \in DOMAIN pipelines :
                 (/\ lastMsg.type = "pipeline_heartbeat" /\ lastMsg.id = id
                  /\ sweep.current_time - lastMsg.at <= Timeout) =>
                     pipelines'[id] = pipelines[id]]_vars

\* The sweeper has passed a running pipeline whose last_update before its
\* heartbeat was more than 300 s old, and the pipeline is still running.
C32_Witness ==
    /\ lastMsg.type = "pipeline_heartbeat"
    /\ lastMsg.id \in DOMAIN pipelines
    /\ pipelines[lastMsg.id].status = "running"
    /\ sweep.pc = "loop" /\ sweep.left = <<>>
    /\ sweep.current_time >= lastMsg.at
    /\ sweep.current_time - lastMsg.before > Timeout

\* C38: a pipeline_update whose payload has no pipeline_id or a status that is
\* none of idle, running, completed, failed, paused leaves the map, the
\* registration order, the counts and the last frame and broadcast as they were.
C38_RejectedUpdateChangesNothing ==
    [][(/\ Handled("pipeline_update")
        /\ (lastMsg'.id \notin PipelineIds \/ lastMsg'.status \notin Statuses)) =>
          /\ pipelines' = pipelines
          /\ registered' = registered
          /\ global_stats' = global_stats
          /\ frame' = frame
          /\ bcast' = bcast]_vars

\* An update with an unknown status for a registered pipeline was handled
\* while a client was connected.
C38_Witness ==
    /\ lastMsg.type = "pipeline_update"
    /\ lastMsg.id \in DOMAIN pipelines
    /\ lastMsg.status \notin Statuses
    /\ clients # {}

\* C40: an accepted pipeline_update that carries an error_message leaves it on
\* its pipeline, new or known; one without an error_message that takes a
\* failed pipeline to another status leaves the pipeline without one.
C40_ErrorMessageFollowsUpdate ==
    [][(/\ Handled("pipeline_update")
        /\ lastMsg'.id \in PipelineIds /\ lastMsg'.status \in Statuses) =>
          LET id == lastMsg'.id
          IN  /\ lastMsg'.error_message # "none" =>
                    pipelines'[id].error_message = lastMsg'.error_message
              /\ (/\ lastMsg'.error_message = "none"
                  /\ id \in DOMAIN pipelines
                  /\ pipelines[id].status = "failed"
                  /\ lastMsg'.status # "failed") =>
                    pipelines'[id].error_message = "none"]_vars

\* C34: mirroring copies and does not move.  After
\* reflect_to_pipeline_storage(stage, file, result=True) on an existing file
\* the source is still at its path with its content, and <storage>/<stage>/
\* holds a separate record <stem>_<tag>_<timestamp><ext> with the same
\* content, the tag being empty for a file of the stage root and the name of
\* the folder otherwise.
C34_MirrorCopies ==
    (lastCall.result /\ lastCall.existed /\ lastCall.ok) =>
        LET src == PathOf(lastCall.dir, PlainName(lastCall.stem))
            tag == StatusOf(lastCall.stage, src)
        IN  /\ IsFile(disk, src)
            /\ disk.fs[src].c = lastCall.content
            /\ \E ts \in 0..MaxClock :
                   LET rec == PathOf(StorageSubdir(lastCall.stage),
                                     MirrorName(lastCall.stem, tag, ts))
                   IN  IsFile(disk, rec) /\ disk.fs[rec].c = lastCall.content

\* C37: no working copy is left behind.  Whenever no invocation of
\* process_file is running for a stage, the working folder of the stage holds
\* no file, whatever the processor did (moved its input, wrote an output
\* elsewhere, wrote nothing, returned False or raised).
C37_NoWorkingCopyLeft ==
    \A s \in Stages :
        (~\E c \in calls : c.stage = s /\ ~Finished(c)) =>
            ~\E p \in DOMAIN disk.fs : p.dir = WorkingDir(s)

\* C36: a watcher hands a file over at most once per mtime.  A step in which
\* the watcher of a stage hands a file with the mtime its listing read to
\* process_file is never a step for a (file, mtime) pair this watcher has
\* handed on before, however the earlier run ended.
C36_HandedOncePerMtime ==
    [][\A s \in Stages :
          (todo[s] # <<>> /\ \E c \in calls' \ calls : c.stage = s /\ c.pc = "guard") =>
              ~\E h \in handed[s] :
                  h.file = Head(todo[s]) /\ h.mtime = current[s][Head(todo[s])]]_vars

\* The file was handed on, its run failed and has returned, and the file is
\* still in the stage root with the mtime it was handed on with.
C36_Witness ==
    \E s \in Stages, f \in Stems :
        /\ IsFile(disk, RootFile(s, f))
        /\ \E h \in handed[s] : h.file = f /\ h.mtime = disk.fs[RootFile(s, f)].m
        /\ outcome[s] = "failed"
        /\ ~ThreadBlocked(s) /\ todo[s] = <<>>
        /\ known[s] = Listing(disk, s)

\* C33: a purge removes every file and every folder under the storage
\* directory, at any depth, and keeps the storage directory; when the system
\* refuses to remove a file, everything else is removed all the same and the
\* purge reports an error.
C33_PurgeRemovesAll ==
    [][purges'.n = purges.n + 1 =>
          LET stuck == purges'.stuck
              kept == UNION {Ancestors(p.dir) : p \in stuck}
          IN  /\ StorageDir \in disk'.dirs
              /\ \A p \in DOMAIN disk'.fs : UnderStorage(p.dir) => p \in stuck
              /\ \A x \in disk'.dirs : UnderStorage(x) => x \in kept
              /\ purges'.ok <=> stuck = {}]_vars

\* C39: the store stays usable after a purge.  A mirror operation on an
\* existing file, made in the process whose purge has removed the folder of
\* the stage, creates the folder again and leaves the record in it.
C39_MirrorAfterPurge ==
    [][\A s \in Stages :
          (/\ ncalls' = ncalls + 1
           /\ lastCall'.stage = s /\ lastCall'.result /\ lastCall'.existed
           /\ StorageSubdir(s) \in purges.gone
           /\ StorageSubdir(s) \notin disk.dirs) =>
              /\ lastCall'.ok
              /\ StorageSubdir(s) \in disk'.dirs
              /\ \E p \in DOMAIN disk'.fs :
                     /\ p.dir = StorageSubdir(s)
                     /\ p.name.stem = lastCall'.stem
                     /\ disk'.fs[p].c = lastCall'.content]_vars

\* C35: watchers do not block each other.  Under fair scheduling, and even
\* if the processor of a slow stage never returns, a file that lies in the
\* root of another stage with an mtime its watcher has not handed it on with
\* is eventually handed to process_file by that watcher (or has left the
\* root).
C35_PeersKeepHandingOver ==
    \A s \in Stages \ SlowStages : \A f \in Stems :
        (/\ IsFile(disk, RootFile(s, f))
         /\ ~\E h \in handed[s] : h.file = f /\ h.mtime = disk.fs[RootFile(s, f)].m)
            ~> (\/ ~IsFile(disk, RootFile(s, f))
                \/ \E h \in handed[s] : h.file = f /\ h.mtime = disk.fs[RootFile(s, f)].m)

\* The processor of a slow stage is running, and the watcher of another
\* stage has handed a file on while it ran.
C35_Witness ==
    /\ \E c \in calls : c.stage \in SlowStages /\ c.pc = "dispatch"
    /\ \E s \in Stages \ SlowStages : \E h \in handed[s] : h.peers_busy

====
